---- MODULE Spec2Model ----
(***************************************************************************)
(* A model of equadratures/poly.py: the Poly parent class (construction,   *)
(* coefficient storage, clone, input scaling, multivariate polynomial and  *)
(* gradient assembly, tensor-grid / qmc quadrature rules, fit evaluation). *)
(*                                                                         *)
(* Floating point numbers are modelled as exact rationals [n, d] in lowest *)
(* terms; numpy arrays as sequences (a matrix is a sequence of rows).      *)
(* The Parameter and Basis classes are not part of poly.py: what Poly      *)
(* calls on them (_getOrthoPoly, _getLocalQuadrature, setOrders) is        *)
(* modelled from the specification's description of those capabilities.    *)
(***************************************************************************)
EXTENDS Integers, Sequences, FiniteSets, TLC

VARIABLES
    params,   \* heap of Parameter lists: params[r] is a list of Parameter objects
    bases,    \* heap of Basis objects: bases[b] = [elements, orders]
    polys,    \* heap of Poly objects
    x,        \* the caller's array of query points (n rows, d columns)
    ret       \* what the last call returned or raised

vars == <<params, bases, polys, x, ret>>

----------------------------------------------------------------------------
(* Bounds of the model.                                                    *)

MaxDim == 2       \* at most this many parameters (dimensions)
MaxRows == 2      \* at most this many basis rows (multi-indices)
MaxPts == 2       \* at most this many query points

PointVals == {1, 2, 3}     \* coordinates of the query points
CoefVals == {0, 1}         \* entries of coefficient vectors

----------------------------------------------------------------------------
(* Exact arithmetic standing for the float arithmetic of numpy.            *)

Abs(a) == IF a < 0 THEN -a ELSE a

RECURSIVE GCD(_, _)
GCD(a, b) == IF b = 0 THEN a ELSE GCD(b, a % b)

Rat(num, den) ==
    LET g == GCD(Abs(num), Abs(den))
        s == IF den < 0 THEN -1 ELSE 1
    IN  [n |-> s * (num \div g), d |-> s * (den \div g)]

RInt(i) == [n |-> i, d |-> 1]
RAdd(a, b) == Rat(a.n * b.d + b.n * a.d, a.d * b.d)
RSub(a, b) == Rat(a.n * b.d - b.n * a.d, a.d * b.d)
RMul(a, b) == Rat(a.n * b.n, a.d * b.d)
RDiv(a, b) == Rat(a.n * b.d, a.d * b.n)

RECURSIVE RSum(_)
RSum(s) == IF s = <<>> THEN RInt(0) ELSE RAdd(Head(s), RSum(Tail(s)))

\* numpy values: a tag tells a 2-d array from a Python list of arrays
Mat(M) == [tag |-> "matrix", v |-> M]
List(L) == [tag |-> "list", v |-> L]
NoneValue == [tag |-> "None", v |-> <<>>]

column(M, k) == [j \in 1..Len(M) |-> M[j][k]]

RECURSIVE SeqMax(_)
SeqMax(s) == IF Len(s) = 1 THEN s[1]
             ELSE LET t == SeqMax(Tail(s)) IN IF s[1] > t THEN s[1] ELSE t

\* np.max(basis[:,k])
colMax(elements, k) == SeqMax(column(elements, k))

----------------------------------------------------------------------------
(* The Parameter capability.                                               *)

ParamSet ==
    { [param_type |-> "Uniform",  lower |-> 1, upper |-> 3, order |-> 2],
      [param_type |-> "Beta",     lower |-> 1, upper |-> 3, order |-> 1],
      [param_type |-> "Gaussian", lower |-> 0, upper |-> 1, order |-> 0] }

\* the largest order a parameter asks for
TopOrder == CHOOSE o \in {q.order : q \in ParamSet} : \A q \in ParamSet : q.order <= o

\* Legendre polynomial of degree k and its derivative at t (three-term recurrence)
RECURSIVE legendre(_, _)
legendre(k, t) ==
    IF k = 0 THEN RInt(1)
    ELSE IF k = 1 THEN t
    ELSE RDiv(RSub(RMul(RInt(2 * k - 1), RMul(t, legendre(k - 1, t))),
                   RMul(RInt(k - 1), legendre(k - 2, t))),
              RInt(k))

RECURSIVE dlegendre(_, _)
dlegendre(k, t) ==
    IF k = 0 THEN RInt(0)
    ELSE IF k = 1 THEN RInt(1)
    ELSE RDiv(RSub(RMul(RInt(2 * k - 1),
                        RAdd(legendre(k - 1, t), RMul(t, dlegendre(k - 1, t)))),
                   RMul(RInt(k - 1), dlegendre(k - 2, t))),
              RInt(k))

\* Hermite polynomial of degree k and its derivative at t
RECURSIVE hermite(_, _)
hermite(k, t) ==
    IF k = 0 THEN RInt(1)
    ELSE IF k = 1 THEN t
    ELSE RSub(RMul(t, hermite(k - 1, t)), RMul(RInt(k - 1), hermite(k - 2, t)))

dhermite(k, t) == IF k = 0 THEN RInt(0) ELSE RMul(RInt(k), hermite(k - 1, t))

\* the univariate orthogonal polynomial of a parameter, degree k, at t
orthoValue(param, k, t) ==
    IF param.param_type = "Uniform" THEN legendre(k, t)
    ELSE IF param.param_type = "Beta"
         THEN legendre(k, RSub(RMul(RInt(2), t), RInt(1)))
    ELSE hermite(k, t)

orthoDerivative(param, k, t) ==
    IF param.param_type = "Uniform" THEN dlegendre(k, t)
    ELSE IF param.param_type = "Beta"
         THEN RMul(RInt(2), dlegendre(k, RSub(RMul(RInt(2), t), RInt(1))))
    ELSE dhermite(k, t)

\* Parameter._getOrthoPoly(points, order): values and derivatives of the degrees
\* 0..order (row k+1 holds degree k), one column per point
getOrthoPoly(param, pts, order) ==
    [p  |-> [k \in 1..(order + 1) |->
                [j \in 1..Len(pts) |-> orthoValue(param, k - 1, pts[j])]],
     dp |-> [k \in 1..(order + 1) |->
                [j \in 1..Len(pts) |-> orthoDerivative(param, k - 1, pts[j])]]]

\* Parameter._getOrthoPoly(points) with the order left out: the parameter's own
getOrthoPolyDefault(param, pts) == getOrthoPoly(param, pts, param.order)

----------------------------------------------------------------------------
(* Poly.                                                                   *)

Unset == [set |-> FALSE, v |-> <<>>]
Value(c) == [set |-> TRUE, v |-> c]

\* Basis.setOrders, called by Poly.__init__ (line 23)
setOrders(basis, orders) == [basis EXCEPT !.orders = orders]

\* Poly.__init__: the new object; no coefficients or designMatrix attribute yet
PolyInit(r, b) ==
    [parameters |-> r, basis |-> b, dimensions |-> Len(params[r]),
     orders |-> [i \in 1..Len(params[r]) |-> params[r][i].order],
     coefficients |-> Unset, designMatrix |-> Unset]

\* scaleEntry with the Beta branch rescaling to [-1, 1] like the Uniform one
scaleEntryBetaAsUniform(param, v) ==
    IF param.param_type \in {"Uniform", "Beta"}
        THEN RSub(RMul(RInt(2), RDiv(RSub(v, RInt(param.lower)),
                                     RInt(param.upper - param.lower))), RInt(1))
    ELSE v

\* one entry of scaleInputs (lines 76-79)
scaleEntry(param, v) ==
    IF param.param_type = "Uniform"
        THEN RSub(RMul(RInt(2), RDiv(RSub(v, RInt(param.lower)),
                                     RInt(param.upper - param.lower))), RInt(1))
    ELSE IF param.param_type = "Beta"
        THEN RDiv(RSub(v, RInt(param.lower)), RInt(param.upper - param.lower))
    ELSE v

\* Poly.scaleInputs: points is a fresh array holding a copy of the argument
\* (lines 70-71), rescaled in place column by column; the call leaves two arrays,
\* the one it returns and the caller's
scaleInputsCall(self, x_points_scaled) ==
    [points |-> [j \in 1..Len(x_points_scaled) |->
                    [i \in 1..Len(x_points_scaled[j]) |->
                        IF i <= self.dimensions
                            THEN scaleEntry(params[self.parameters][i],
                                            x_points_scaled[j][i])
                            ELSE x_points_scaled[j][i]]],
     x_points_scaled |-> x_points_scaled]

scaleInputs(self, x_points_scaled) == scaleInputsCall(self, x_points_scaled).points

\* polyRow with temp never multiplied in: the row keeps the last dimension only
polyRowLastOnly(p, row, k, temp) ==
    [j \in DOMAIN temp |-> p[Len(row)][row[Len(row)] + 1][j]]

\* the inner loop of getPolynomial (lines 101-104): temp starts as ones and is
\* multiplied pointwise by the row of p[k] that basis[i,k] selects
RECURSIVE polyRow(_, _, _, _)
polyRow(p, row, k, temp) ==
    IF k > Len(row) THEN temp
    ELSE polyRow(p, row, k + 1,
                 [j \in DOMAIN temp |-> RMul(p[k][row[k] + 1][j], temp[j])])

\* Poly.getPolynomial
getPolynomial(self, stackOfPoints) ==
    LET basis == bases[self.basis].elements
        basis_entries == Len(basis)
        dimensions == Len(basis[1])
        no_of_points == Len(stackOfPoints)
        plist == params[self.parameters]
        p == [i \in 1..dimensions |->
                getOrthoPoly(plist[i], column(stackOfPoints, i), colMax(basis, i)).p]
        ones == [j \in 1..no_of_points |-> RInt(1)]
    IN  IF dimensions = 1
            THEN Mat(getOrthoPoly(plist[1], column(stackOfPoints, 1),
                                  colMax(basis, 1)).p)
            ELSE Mat([i \in 1..basis_entries |-> polyRow(p, basis[i], 1, ones)])

\* gradRow taking the plain value in the gradient direction too
gradRowNoDerivative(p, dp, row, gradDirection, k, temp) == polyRow(p, row, k, temp)

\* the inner loop of getPolynomialGradient (lines 132-138)
RECURSIVE gradRow(_, _, _, _, _, _)
gradRow(p, dp, row, gradDirection, k, temp) ==
    IF k > Len(row) THEN temp
    ELSE gradRow(p, dp, row, gradDirection, k + 1,
                 [j \in DOMAIN temp |->
                    IF k = gradDirection
                        THEN RMul(dp[k][row[k] + 1][j], temp[j])
                        ELSE RMul(p[k][row[k] + 1][j], temp[j])])

\* Poly.getPolynomialGradient
getPolynomialGradient(self, stackOfPoints) ==
    LET basis == bases[self.basis].elements
        basis_entries == Len(basis)
        dimensions == Len(basis[1])
        no_of_points == Len(stackOfPoints)
        plist == params[self.parameters]
        o == [i \in 1..dimensions |->
                getOrthoPoly(plist[i], column(stackOfPoints, i), colMax(basis, i) + 1)]
        p == [i \in 1..dimensions |-> o[i].p]
        dp == [i \in 1..dimensions |-> o[i].dp]
        ones == [j \in 1..no_of_points |-> RInt(1)]
    IN  IF dimensions = 1
            THEN Mat(getOrthoPolyDefault(plist[1], column(stackOfPoints, 1)).p)
            ELSE List([v \in 1..dimensions |->
                        Mat([i \in 1..basis_entries |->
                                gradRow(p, dp, basis[i], v, 1, ones)])])

\* Poly.__setCoefficients__ and Poly.__setDesignMatrix__: plain stores
setCoefficients(self, coefficients) ==
    [self EXCEPT !.coefficients = Value(coefficients)]

setDesignMatrix(self, designMatrix) ==
    [self EXCEPT !.designMatrix = Value(designMatrix)]

\* clone carrying the coefficients of the original over
cloneWithCoefficients(self) ==
    [parameters |-> self.parameters, basis |-> self.basis,
     dimensions |-> self.dimensions, orders |-> self.orders,
     coefficients |-> self.coefficients, designMatrix |-> Unset]

\* Poly.clone: type(self)(self.parameters, self.basis)
clone(self) == PolyInit(self.parameters, self.basis)

\* np.mat(coefficients) is a column; P.T * column is defined when the lengths agree
\* (P has one row per coefficient): entry j is the sum over rows i of P[i][j] * c[i]
weightedSum(P, c, j) == RSum([i \in 1..Len(P) |-> RMul(P[i][j], c[i])])

\* the outcome of a call: what it returned, or the exception it raised
Ok(value) == [status |-> "ok", value |-> value]
Err(error) == [status |-> error, value |-> NoneValue]

\* Poly.evaluatePolyFit (line 207): getPolynomial(...).T * np.mat(coefficients)
evaluatePolyFit(self, xv) ==
    LET P == getPolynomial(self, scaleInputs(self, xv)).v
    IN  IF ~self.coefficients.set THEN Err("AttributeError")
        ELSE IF Len(self.coefficients.v) # Len(P) THEN Err("ValueError")
        ELSE Ok(Mat([j \in 1..Len(xv) |-> <<weightedSum(P, self.coefficients.v, j)>>]))

\* Poly.evaluatePolyGradFit (lines 196-201)
evaluatePolyGradFit(self, xvalue) ==
    LET H == getPolynomialGradient(self, scaleInputs(self, xvalue))
        c == self.coefficients
    IN  IF ~c.set THEN Err("AttributeError")
        ELSE IF H.tag = "list"
            \* H[i] is a matrix with one row per basis entry
            THEN IF Len(c.v) # Len(H.v[1].v) THEN Err("ValueError")
                 ELSE Ok(Mat([i \in 1..self.dimensions |->
                        [j \in 1..Len(xvalue) |-> weightedSum(H.v[i].v, c.v, j)]]))
            \* H is one matrix: H[i] is a row of it, a 1-d array of n values,
            \* which np.mat turns into a 1 x n matrix
            ELSE IF Len(c.v) # 1 THEN Err("ValueError")
                 ELSE Ok(Mat([i \in 1..self.dimensions |->
                        [j \in 1..Len(xvalue) |-> RMul(c.v[1], H.v[i][j])]]))

----------------------------------------------------------------------------
(* Quadrature rules.                                                       *)

DimThreshold == 8
default_number_of_points == 20000

RECURSIVE binomial(_, _)
binomial(n, k) == IF k = 0 \/ k = n THEN 1 ELSE binomial(n - 1, k - 1) + binomial(n - 1, k)

RECURSIVE pow2(_)
pow2(n) == IF n = 0 THEN 1 ELSE 2 * pow2(n - 1)

\* Parameter._getLocalQuadrature(N, scale=True): N nodes of the canonical domain, as
\* a column, and their N weights.  The rules of the bounded kinds are normalised
\* (weights sum to 1); the rule of the other kinds is not.
getLocalQuadrature(param, N) ==
    IF param.param_type = "Uniform"
        THEN [points  |-> [l \in 1..N |-> <<Rat(2 * l - N - 1, N + 1)>>],
              weights |-> [l \in 1..N |-> Rat(binomial(N - 1, l - 1), pow2(N - 1))]]
    ELSE IF param.param_type = "Beta"
        THEN [points  |-> [l \in 1..N |-> <<Rat(l, N + 1)>>],
              weights |-> [l \in 1..N |-> Rat(1, N)]]
    ELSE [points  |-> [l \in 1..N |-> <<RInt(2 * l - N - 1)>>],
          weights |-> [l \in 1..N |-> RInt(l)]]

\* kron with its operands taken in the other order
kronSwapped(A, B) ==
    LET rA == Len(A)
        cA == Len(A[1])
    IN  [r \in 1..(Len(B) * rA) |->
            [c \in 1..(Len(B[1]) * cA) |->
                RMul(B[((r - 1) \div rA) + 1][((c - 1) \div cA) + 1],
                     A[((r - 1) % rA) + 1][((c - 1) % cA) + 1])]]

\* np.kron of two 2-d arrays
kron(A, B) ==
    LET rB == Len(B)
        cB == Len(B[1])
    IN  [r \in 1..(Len(A) * rB) |->
            [c \in 1..(Len(A[1]) * cB) |->
                RMul(A[((r - 1) \div rB) + 1][((c - 1) \div cB) + 1],
                     B[((r - 1) % rB) + 1][((c - 1) % cB) + 1])]]

\* kron1 repeating b without multiplying by the entries of a
kron1Repeat(a, b) == [i \in 1..(Len(a) * Len(b)) |-> b[((i - 1) % Len(b)) + 1]]

\* np.kron of two 1-d arrays
kron1(a, b) == kron(<<a>>, <<b>>)[1]

\* np.ones((n, 1))
onesColumn(n) == [i \in 1..n |-> <<RInt(1)>>]

\* np.concatenate((A, B), axis = 1)
concatenate(A, B) == [r \in 1..Len(A) |-> A[r] \o B[r]]

\* the loop of getTensorQuadratureRule over the dimensions (lines 153-164)
RECURSIVE tensorLoop(_, _, _, _, _)
tensorLoop(self, orders, u, pp, ww) ==
    IF u > self.dimensions THEN [pp |-> pp, ww |-> ww]
    ELSE LET q == getLocalQuadrature(params[self.parameters][u], orders[u] + 1)
             left_side == kron(pp, onesColumn(Len(q.points)))
             right_side == kron(onesColumn(Len(pp)), q.points)
         IN  tensorLoop(self, orders, u + 1,
                        concatenate(left_side, right_side), kron1(ww, q.weights))

\* Poly.getTensorQuadratureRule(orders): orders is Unset for None
getTensorQuadratureRule(self, orders) ==
    LET r == tensorLoop(self, IF orders.set THEN orders.v ELSE self.orders,
                        1, <<<<RInt(1)>>>>, <<RInt(1)>>)
    IN  [points  |-> [i \in 1..Len(r.pp) |-> Tail(r.pp[i])],
         weights |-> r.ww]

\* a (points, weights) pair
Rule(points, weights) == [tag |-> "tuple", v |-> [points |-> points, weights |-> weights]]

\* the rule-selection strings tried, and str.lower on them
OptionStrings == {"qmc", "QMC", "tensor grid", "Tensor Grid", "sparse grid"}
lower(str) ==
    IF str = "QMC" THEN "qmc"
    ELSE IF str = "Tensor Grid" THEN "tensor grid"
    ELSE str

\* lines 185-190: the samples are random draws, kept here as the shape of the array
\* they fill; every weight is 1/default_number_of_points
qmcRule(self) ==
    Rule([tag |-> "samples", rows |-> default_number_of_points,
          cols |-> self.dimensions],
         [tag |-> "constant", len |-> default_number_of_points,
          each |-> Rat(1, default_number_of_points)])

\* options = None
NoOption == [set |-> FALSE, v |-> ""]

\* Poly.getQuadratureRule(options): options is NoOption for None
getQuadratureRule(self, options) ==
    LET opt == IF options.set THEN options
               ELSE IF self.dimensions > DimThreshold THEN Value("qmc")
               ELSE IF self.dimensions < DimThreshold THEN Value("tensor grid")
               ELSE options
    IN  IF ~opt.set THEN Err("AttributeError")
        ELSE IF lower(opt.v) = "qmc" THEN Ok(qmcRule(self))
        ELSE IF lower(opt.v) = "tensor grid"
            THEN LET r == getTensorQuadratureRule(self,
                            Value([i \in 1..Len(bases[self.basis].orders) |->
                                       2 * bases[self.basis].orders[i]]))
                 IN  Ok(Rule(Mat(r.points), [tag |-> "array", v |-> r.weights]))
        ELSE Ok(NoneValue)

----------------------------------------------------------------------------
(* Calls and what they return.                                             *)

Call(op, self, arg, outcome) ==
    [op |-> op, self |-> self, arg |-> arg,
     status |-> outcome.status, value |-> outcome.value]
NoCall == Call("none", 0, <<>>, Ok(NoneValue))

\* the multi-indices a Basis over the parameter list plist may hold
MultiIndices(plist) ==
    {row \in [1..Len(plist) -> 0..TopOrder] :
        \A k \in 1..Len(plist) : row[k] <= plist[k].order}

ParamLists == UNION {[1..d -> ParamSet] : d \in 1..MaxDim}
BasisTables(plist) == UNION {[1..m -> MultiIndices(plist)] : m \in 1..MaxRows}
PointArrays(d) ==
    UNION {[1..n -> [1..d -> {RInt(v) : v \in PointVals}]] : n \in 1..MaxPts}
CoefVectors(len) == [1..len -> {RInt(c) : c \in CoefVals}]

ordersOf(plist) == [i \in 1..Len(plist) |-> plist[i].order]

\* the state after Poly(parameters, basis): one parameter list, one basis, one Poly
Constructed(plist, elements) ==
    /\ params = <<plist>>
    /\ bases = <<setOrders([elements |-> elements, orders |-> <<>>], ordersOf(plist))>>
    /\ polys = <<[parameters |-> 1, basis |-> 1, dimensions |-> Len(plist),
                  orders |-> ordersOf(plist),
                  coefficients |-> Unset, designMatrix |-> Unset]>>
    /\ ret = NoCall

InitEval ==
    \E plist \in ParamLists :
        /\ \E elements \in BasisTables(plist) : Constructed(plist, elements)
        /\ x \in PointArrays(Len(plist))

ScaleInputs(s) ==
    LET c == scaleInputsCall(polys[s], x)
    IN  /\ ret' = Call("scaleInputs", s, x, Ok(Mat(c.points)))
        /\ x' = c.x_points_scaled
        /\ UNCHANGED <<params, bases, polys>>

GetPolynomial(s) ==
    LET c == scaleInputsCall(polys[s], x)
    IN  /\ ret' = Call("getPolynomial", s, c.points, Ok(getPolynomial(polys[s], c.points)))
        /\ x' = c.x_points_scaled
        /\ UNCHANGED <<params, bases, polys>>

GetPolynomialGradient(s) ==
    LET c == scaleInputsCall(polys[s], x)
    IN  /\ ret' = Call("getPolynomialGradient", s, c.points,
                       Ok(getPolynomialGradient(polys[s], c.points)))
        /\ x' = c.x_points_scaled
        /\ UNCHANGED <<params, bases, polys>>

NextEval ==
    \/ \E s \in DOMAIN polys : GetPolynomial(s)
    \/ \E s \in DOMAIN polys : GetPolynomialGradient(s)

SpecEval == InitEval /\ [][NextEval]_vars

\* scaleInputs alone, on a Poly over the constant basis
InitScale ==
    \E plist \in ParamLists :
        /\ Constructed(plist, <<[k \in 1..Len(plist) |-> 0]>>)
        /\ x \in PointArrays(Len(plist))

NextScale == \E s \in DOMAIN polys : ScaleInputs(s)

SpecScale == InitScale /\ [][NextScale]_vars

----------------------------------------------------------------------------
(* Fitted surrogates: coefficients, then gradient estimates.               *)

SetCoefficients(s, c) ==
    /\ polys' = [polys EXCEPT ![s] = setCoefficients(polys[s], c)]
    /\ ret' = Call("__setCoefficients__", s, c, Ok(NoneValue))
    /\ UNCHANGED <<params, bases, x>>

EvaluatePolyFit(s) ==
    /\ ret' = Call("evaluatePolyFit", s, x, evaluatePolyFit(polys[s], x))
    /\ x' = scaleInputsCall(polys[s], x).x_points_scaled
    /\ UNCHANGED <<params, bases, polys>>

EvaluatePolyGradFit(s) ==
    /\ ret' = Call("evaluatePolyGradFit", s, x, evaluatePolyGradFit(polys[s], x))
    /\ x' = scaleInputsCall(polys[s], x).x_points_scaled
    /\ UNCHANGED <<params, bases, polys>>

\* the fitting routines hand over one coefficient per basis row
NextGrad ==
    \/ \E s \in DOMAIN polys :
          \E c \in CoefVectors(Len(bases[polys[s].basis].elements)) :
             SetCoefficients(s, c)
    \/ \E s \in DOMAIN polys : GetPolynomialGradient(s)
    \/ \E s \in DOMAIN polys : EvaluatePolyGradFit(s)

SpecGrad == InitEval /\ [][NextGrad]_vars

----------------------------------------------------------------------------
(* Quadrature rules of a constructed Poly.                                 *)

MaxOrder == 1     \* explicit per-dimension orders handed to getTensorQuadratureRule

\* parameter lists at and above the dimension threshold of getQuadratureRule
LongLists ==
    {[i \in 1..d |-> CHOOSE q \in ParamSet : q.order = 0] :
        d \in {DimThreshold, DimThreshold + 1}}

\* the explicit orders tried (none for the long lists, whose grids are large)
OrderLists(d) ==
    IF d <= MaxDim THEN {Value(v) : v \in [1..d -> 0..MaxOrder]} ELSE {}

InitQuad ==
    /\ \E plist \in ParamLists \cup LongLists :
          \E elements \in [1..1 -> MultiIndices(plist)] : Constructed(plist, elements)
    /\ x = <<>>

GetQuadratureRule(s, options) ==
    /\ ret' = Call("getQuadratureRule", s, options, getQuadratureRule(polys[s], options))
    /\ UNCHANGED <<params, bases, polys, x>>

GetTensorQuadratureRule(s, orders) ==
    LET r == getTensorQuadratureRule(polys[s], orders)
    IN  /\ ret' = Call("getTensorQuadratureRule", s, orders,
                       Ok(Rule(Mat(r.points), [tag |-> "array", v |-> r.weights])))
        /\ UNCHANGED <<params, bases, polys, x>>

NextQuad ==
    \/ \E s \in DOMAIN polys :
          \E o \in {Value(str) : str \in OptionStrings} \cup {NoOption} :
             GetQuadratureRule(s, o)
    \/ \E s \in DOMAIN polys :
          \E o \in OrderLists(polys[s].dimensions) \cup {Unset} :
             GetTensorQuadratureRule(s, o)

SpecQuad == InitQuad /\ [][NextQuad]_vars

----------------------------------------------------------------------------
(* The life of Poly objects: construct, set coefficients, clone, evaluate. *)

MaxObjs == 2      \* at most this many Poly objects

\* coefficient vectors right for one of the bases below, or too long for both
AnyCoefVectors ==
    {[i \in 1..len |-> RInt(IF i = 1 THEN 1 ELSE 0)] : len \in {1, MaxRows, MaxRows + 1}}

\* the coordinates strictly inside the bounds of every bounded parameter
InteriorVals ==
    {v \in PointVals : \A q \in ParamSet :
        q.param_type \in {"Uniform", "Beta"} => q.lower < v /\ v < q.upper}

\* two parameter lists of the same length, each with a basis of its own (the
\* constant basis, and one of MaxRows rows), and the first Poly built on one pair
InitObj ==
    /\ \E d \in 1..MaxDim, r \in 1..2 :
        LET lists == <<[i \in 1..d |-> CHOOSE q \in ParamSet : q.param_type = "Uniform"],
                       [i \in 1..d |-> CHOOSE q \in ParamSet : q.param_type = "Beta"]>>
            tables == <<<<[k \in 1..d |-> 0]>>,
                        [i \in 1..MaxRows |-> [k \in 1..d |-> (i - 1) % 2]]>>
        IN  /\ params = lists
            /\ bases = [[b \in 1..2 |-> [elements |-> tables[b], orders |-> <<>>]]
                           EXCEPT ![r] = setOrders(@, ordersOf(lists[r]))]
            /\ polys = <<[parameters |-> r, basis |-> r, dimensions |-> d,
                          orders |-> ordersOf(lists[r]),
                          coefficients |-> Unset, designMatrix |-> Unset]>>
            /\ x \in {<<[i \in 1..d |-> RInt(v)]>> : v \in InteriorVals}
    /\ ret = NoCall

\* Poly(parameters, basis): __init__ also hands its orders to the basis (line 23)
Construct(r, b) ==
    /\ Len(polys) < MaxObjs
    /\ polys' = Append(polys, PolyInit(r, b))
    /\ bases' = [bases EXCEPT ![b] = setOrders(@, PolyInit(r, b).orders)]
    /\ ret' = Call("Poly", Len(polys) + 1, <<r, b>>, Ok(NoneValue))
    /\ UNCHANGED <<params, x>>

\* self.clone(): the new object is built by __init__ like any other
Clone(s) ==
    /\ Len(polys) < MaxObjs
    /\ polys' = Append(polys, clone(polys[s]))
    /\ bases' = [bases EXCEPT ![clone(polys[s]).basis] =
                    setOrders(@, clone(polys[s]).orders)]
    /\ ret' = Call("clone", s, <<>>, Ok(NoneValue))
    /\ UNCHANGED <<params, x>>

\* the design matrix of the fitting routines: the basis at the scaled points
SetDesignMatrix(s) ==
    LET designMatrix == getPolynomial(polys[s], scaleInputs(polys[s], x))
    IN  /\ polys' = [polys EXCEPT ![s] = setDesignMatrix(polys[s], designMatrix.v)]
        /\ ret' = Call("__setDesignMatrix__", s, designMatrix.v, Ok(NoneValue))
        /\ UNCHANGED <<params, bases, x>>

NextObj ==
    \/ \E r \in DOMAIN params : Construct(r, r)
    \/ \E s \in DOMAIN polys : Clone(s)
    \/ \E s \in DOMAIN polys : \E c \in AnyCoefVectors : SetCoefficients(s, c)
    \/ \E s \in DOMAIN polys : SetDesignMatrix(s)
    \/ \E s \in DOMAIN polys : EvaluatePolyFit(s)
    \/ \E s \in DOMAIN polys : EvaluatePolyGradFit(s)

SpecObj == InitObj /\ [][NextObj]_vars

----------------------------------------------------------------------------
(* Properties of the evaluators.                                           *)

\* the Poly the last call was made on, its parameter list and its basis table
Self == polys[ret.self]
SelfParams == params[Self.parameters]
SelfBasis == bases[Self.basis].elements

IsMatrix(V, rows, cols) ==
    /\ V.tag = "matrix"
    /\ Len(V.v) = rows
    /\ \A i \in 1..Len(V.v) : Len(V.v[i]) = cols

RECURSIVE RProd(_)
RProd(s) == IF s = <<>> THEN RInt(1) ELSE RMul(Head(s), RProd(Tail(s)))

\* the tensor-product term of multi-index row at the point pt
TensorTerm(plist, row, pt) ==
    RProd([k \in 1..Len(row) |-> orthoValue(plist[k], row[k], pt[k])])

\* the same term differentiated in direction v
TensorTermGrad(plist, row, pt, v) ==
    RProd([k \in 1..Len(row) |->
              IF k = v THEN orthoDerivative(plist[k], row[k], pt[k])
                       ELSE orthoValue(plist[k], row[k], pt[k])])

\* C1: for every valid Basis (m rows, d columns, d >= 1) and every n x d point
\* matrix, getPolynomial returns an m x n matrix and getPolynomialGradient returns
\* a sequence of exactly d matrices, each m x n.
C1_Shapes ==
    /\ ret.op = "getPolynomial" =>
          IsMatrix(ret.value, Len(SelfBasis), Len(ret.arg))
    /\ ret.op = "getPolynomialGradient" =>
          /\ ret.value.tag = "list"
          /\ Len(ret.value.v) = Self.dimensions
          /\ \A v \in 1..Len(ret.value.v) :
                IsMatrix(ret.value.v[v], Len(SelfBasis), Len(ret.arg))

\* C2: for d >= 2, entry [i, j] of the getPolynomial result is the product over
\* the dimensions k of the univariate value of degree basis[i,k] of parameter k
\* at coordinate k of point j, output row i belonging to basis row i whatever the
\* order of the rows; at the canonical point (0,0) of two Uniform parameters the
\* rows (0,0), (1,0), (0,1), (2,0), (1,1), (0,2) give 1, 0, 0, -1/2, 0, -1/2.
C2_TensorProduct ==
    (ret.op = "getPolynomial" /\ Self.dimensions >= 2) =>
        /\ IsMatrix(ret.value, Len(SelfBasis), Len(ret.arg))
        /\ \A i \in 1..Len(SelfBasis) : \A j \in 1..Len(ret.arg) :
              /\ ret.value.v[i][j] = TensorTerm(SelfParams, SelfBasis[i], ret.arg[j])
              /\ (/\ Self.dimensions = 2
                  /\ \A k \in 1..2 : SelfParams[k].param_type = "Uniform"
                  /\ ret.arg[j] = <<RInt(0), RInt(0)>>) =>
                    /\ SelfBasis[i] = <<0, 0>> => ret.value.v[i][j] = RInt(1)
                    /\ SelfBasis[i] \in {<<1, 0>>, <<0, 1>>, <<1, 1>>} =>
                          ret.value.v[i][j] = RInt(0)
                    /\ SelfBasis[i] \in {<<2, 0>>, <<0, 2>>} =>
                          ret.value.v[i][j] = Rat(-1, 2)

\* a two-dimensional basis listed out of order, evaluated at (0,0) and elsewhere
C2_Witness ==
    /\ ret.op = "getPolynomial"
    /\ Self.dimensions = 2
    /\ SelfBasis = <<<<0, 2>>, <<1, 0>>>>
    /\ Len(ret.arg) = 2
    /\ ret.arg[1] = <<RInt(0), RInt(0)>>
    /\ ret.value.v[1] = <<Rat(-1, 2), RInt(1)>>
    /\ ret.value.v[2] = <<RInt(0), RInt(1)>>

\* C3: with d = 1 the shortcut of getPolynomial gives what the general path
\* would: output row i is the univariate value of degree basis[i,0], and the
\* output has exactly m rows, for every one-column basis.
C3_UnivariateShortcut ==
    (ret.op = "getPolynomial" /\ Self.dimensions = 1) =>
        /\ IsMatrix(ret.value, Len(SelfBasis), Len(ret.arg))
        /\ \A i \in 1..Len(SelfBasis) : \A j \in 1..Len(ret.arg) :
              i <= Len(ret.value.v) =>
                ret.value.v[i][j] = TensorTerm(SelfParams, SelfBasis[i], ret.arg[j])

----------------------------------------------------------------------------
(* Properties of the quadrature rules.                                     *)

\* the one-dimensional rules a tensor rule over the point counts N is built from
LocalRules(plist, N) == [k \in 1..Len(plist) |-> getLocalQuadrature(plist[k], N[k])]

RECURSIVE NatProd(_)
NatProd(s) == IF s = <<>> THEN 1 ELSE Head(s) * NatProd(Tail(s))

\* the node index of dimension k in row r of a grid whose last dimension varies
\* fastest: digit k of r - 1 written in the mixed radix N
NodeIndex(N, r, k) ==
    (((r - 1) \div NatProd(SubSeq(N, k + 1, Len(N)))) % N[k]) + 1

\* C5: the tensor-grid rule of getQuadratureRule('tensor grid') asks each
\* dimension k for 2*order_k + 1 nodes (order_k the order the Basis stores) and
\* returns prod_k (2*order_k + 1) rows of d columns and as many weights; the rows
\* list every combination of nodes once, the last dimension's node index varying
\* fastest, and the weight of a row is the product of the weights of its nodes.
C5_TensorGrid ==
    (ret.op = "getQuadratureRule" /\ ret.arg.set /\ lower(ret.arg.v) = "tensor grid") =>
        LET N == [k \in 1..Self.dimensions |-> 2 * bases[Self.basis].orders[k] + 1]
            loc == LocalRules(SelfParams, N)
            total == NatProd(N)
            points == ret.value.v.points
            weights == ret.value.v.weights.v
        IN  /\ ret.status = "ok"
            /\ ret.value.tag = "tuple"
            /\ IsMatrix(points, total, Self.dimensions)
            /\ Len(weights) = total
            /\ Cardinality({points.v[r] : r \in 1..Len(points.v)}) = total
            /\ \A r \in 1..total :
                  /\ \A k \in 1..Self.dimensions :
                        points.v[r][k] = loc[k].points[NodeIndex(N, r, k)][1]
                  /\ weights[r] =
                        RProd([k \in 1..Self.dimensions |->
                                  loc[k].weights[NodeIndex(N, r, k)]])

\* a grid of 5 x 3 nodes over a Uniform (order 2) and a Beta (order 1) parameter
C5_Witness ==
    /\ ret.op = "getQuadratureRule"
    /\ ret.arg = Value("Tensor Grid")
    /\ Self.dimensions = 2
    /\ bases[Self.basis].orders = <<2, 1>>
    /\ ret.status = "ok"
    /\ Len(ret.value.v.points.v) = 15
    /\ ret.value.v.points.v[1] # ret.value.v.points.v[2]
    /\ ret.value.v.points.v[1][1] = ret.value.v.points.v[3][1]
    /\ ret.value.v.points.v[1][1] # ret.value.v.points.v[4][1]

\* the orders a getTensorQuadratureRule call used
UsedOrders == IF ret.arg.set THEN ret.arg.v ELSE Self.orders

\* C6: for any d >= 1 and any per-dimension orders >= 0 the weights returned by
\* getTensorQuadratureRule sum to the product of the sums of the one-dimensional
\* weights, so to 1 when every one-dimensional rule has weights summing to 1.
C6_WeightsSum ==
    ret.op = "getTensorQuadratureRule" =>
        LET N == [k \in 1..Self.dimensions |-> UsedOrders[k] + 1]
            loc == LocalRules(SelfParams, N)
            sums == [k \in 1..Self.dimensions |-> RSum(loc[k].weights)]
        IN  /\ RSum(ret.value.v.weights.v) = RProd(sums)
            /\ (\A k \in 1..Self.dimensions : sums[k] = RInt(1)) =>
                  RSum(ret.value.v.weights.v) = RInt(1)

\* two normalised rules of two nodes each, combined into four weights summing to 1
C6_Witness ==
    /\ ret.op = "getTensorQuadratureRule"
    /\ Self.dimensions = 2
    /\ ret.arg = Value(<<1, 1>>)
    /\ SelfParams[1].param_type = "Uniform"
    /\ SelfParams[2].param_type = "Beta"
    /\ Len(ret.value.v.weights.v) = 4
    /\ RSum(ret.value.v.weights.v) = RInt(1)

\* C8: getQuadratureRule with a rule-selection string that is neither 'qmc' nor
\* 'tensor grid' reports an error at the call; every call, for every dimension
\* count, either returns a (points, weights) pair or reports an error.
C8_RuleOrError ==
    ret.op = "getQuadratureRule" =>
        /\ ret.status = "ok" => ret.value.tag = "tuple"
        /\ (ret.arg.set /\ lower(ret.arg.v) \notin {"qmc", "tensor grid"}) =>
              ret.status # "ok"

----------------------------------------------------------------------------
(* Properties of the gradient estimates.                                   *)

\* C10: for d >= 2 and every direction v, entry [i, j] of the v-th matrix of
\* getPolynomialGradient is the product over the dimensions k of the univariate
\* derivative of degree basis[i,k] when k = v and of the univariate value when
\* k # v, at coordinate k of point j; so with coefficients that are non-zero only
\* on the all-zero multi-index, evaluatePolyGradFit returns zero in every
\* direction at every point.
C10_Gradient ==
    /\ (ret.op = "getPolynomialGradient" /\ Self.dimensions >= 2) =>
          /\ ret.value.tag = "list"
          /\ Len(ret.value.v) = Self.dimensions
          /\ \A v \in 1..Self.dimensions :
                /\ IsMatrix(ret.value.v[v], Len(SelfBasis), Len(ret.arg))
                /\ \A i \in 1..Len(SelfBasis) : \A j \in 1..Len(ret.arg) :
                      ret.value.v[v].v[i][j] =
                          TensorTermGrad(SelfParams, SelfBasis[i], ret.arg[j], v)
    /\ (/\ ret.op = "evaluatePolyGradFit"
        /\ Self.dimensions >= 2
        /\ Self.coefficients.set
        /\ Len(Self.coefficients.v) = Len(SelfBasis)
        /\ \A i \in 1..Len(SelfBasis) :
              Self.coefficients.v[i] # RInt(0) =>
                  \A k \in 1..Self.dimensions : SelfBasis[i][k] = 0) =>
          /\ ret.status = "ok"
          /\ IsMatrix(ret.value, Self.dimensions, Len(ret.arg))
          /\ \A v \in 1..Self.dimensions : \A j \in 1..Len(ret.arg) :
                ret.value.v[v][j] = RInt(0)

\* a constant term with coefficient 1 beside a quadratic term with coefficient 0
C10_Witness ==
    /\ ret.op = "evaluatePolyGradFit"
    /\ Self.dimensions = 2
    /\ SelfBasis = <<<<2, 1>>, <<0, 0>>>>
    /\ Self.coefficients = Value(<<RInt(0), RInt(1)>>)
    /\ Len(ret.arg) = 2
    /\ ret.status = "ok"
    /\ ret.value.v = <<<<RInt(0), RInt(0)>>, <<RInt(0), RInt(0)>>>>

----------------------------------------------------------------------------
(* Properties of the Poly objects.                                         *)

\* C7: clone() of an object, fitted or not, yields a new object with the same
\* Parameter list and the same Basis and with no coefficients and no design
\* matrix, and leaves every existing object as it was; evaluatePolyFit and
\* evaluatePolyGradFit fail on an object without coefficients; setting the
\* coefficients of one object changes no other object.
C7_Clone ==
    [][/\ (ret'.op = "clone" /\ Len(polys') = Len(polys) + 1) =>
            /\ polys'[Len(polys')].parameters = polys[ret'.self].parameters
            /\ polys'[Len(polys')].basis = polys[ret'.self].basis
            /\ ~polys'[Len(polys')].coefficients.set
            /\ ~polys'[Len(polys')].designMatrix.set
            /\ \A i \in DOMAIN polys : polys'[i] = polys[i]
            /\ params' = params
            /\ \A b \in DOMAIN bases : bases'[b].elements = bases[b].elements
       /\ (/\ ret'.op \in {"evaluatePolyFit", "evaluatePolyGradFit"}
           /\ ~polys'[ret'.self].coefficients.set) => ret'.status # "ok"
       /\ (ret'.op = "__setCoefficients__" /\ polys' # polys) =>
            \A i \in DOMAIN polys :
                i # ret'.self => polys'[i] = polys[i]]_vars

\* a fitted object with a design matrix beside its clone, which has neither, and
\* an evaluation of the clone that failed
C7_Witness ==
    /\ Len(polys) = 2
    /\ polys[1].coefficients.set
    /\ polys[1].designMatrix.set
    /\ polys[1].parameters = 2
    /\ polys[1].basis = 2
    /\ polys[1].coefficients.v # <<RInt(1)>>
    /\ polys[2] = clone(polys[1])
    /\ ~polys[2].coefficients.set
    /\ ret.op = "evaluatePolyFit"
    /\ ret.self = 2
    /\ ret.status = "AttributeError"

\* C9: in every reachable state the stored coefficient vector of a Poly, if
\* present, has as many entries as its Basis has rows: __setCoefficients__ with a
\* vector of another length is reported at the call and nothing is stored.
C9_CoefficientLength ==
    /\ \A s \in DOMAIN polys :
          polys[s].coefficients.set =>
              Len(polys[s].coefficients.v) = Len(bases[polys[s].basis].elements)
    /\ (ret.op = "__setCoefficients__" /\ Len(ret.arg) # Len(SelfBasis)) =>
          ret.status # "ok"

====
